---- MODULE Spec2Model ----
\* A model of app.py: the NYT article search client, the text cleaner, the
\* summarization parameter policy, the lazily built model handle, and the
\* /summarize request handler, run by several request threads of one process.
EXTENDS Integers, Sequences, FiniteSets, TLC

\* ---------------------------------------------------------------- bounds

\* Longest free-form input string (over Alphabet) given to the text functions.
MaxLen == 4
\* Largest word count of the generated many-word inputs.
MaxWords == 142
\* Most articles the search API hands out in a run, over all its responses.
MaxArticles == 3

\* ------------------------------------------------------- program constants

ShortLimit == 50
MaxSummaryLen == 130
LengthMargin == 10
DefaultMinLen == 30
RateLimitStatus == 429

\* ------------------------------------------------------------- characters

\* Strings that the program inspects character by character are sequences of
\* one-character strings.
Letters ==
    {"a","b","c","d","e","f","g","h","i","j","k","l","m","n","o","p","q","r",
     "s","t","u","v","w","x","y","z","A","B","C","D","E","F","G","H","I","J",
     "K","L","M","N","O","P","Q","R","S","T","U","V","W","X","Y","Z"}

Digits == {"0","1","2","3","4","5","6","7","8","9"}

\* What \s matches and what str.split() splits on.
Whitespace == {" ", "\t", "\n", "\r", "\f"}

\* The literal punctuation of the character class . , ! ? ' " -
Punctuation == {".", ",", "!", "?", "'", "\"", "-"}

IsSpace(c) == c \in Whitespace

\* ------------------------------------------------------------- clean_text

\* Whether position p of s lies in a match of <.*?> : between a "<" at or before
\* it and the nearest ">" at or after it, with no ">" and no line break from
\* that "<" up to that ">" ("." does not match a line break, ".*?" stops at the
\* first ">", and the leftmost such "<" is where the match starts).
InTag(s, p) ==
    /\ \E i \in 1..p :
         s[i] = "<" /\ \A k \in i..(p - 1) : s[k] \notin {">", "\n"}
    /\ \E j \in p..Len(s) :
         s[j] = ">" /\ \A k \in p..(j - 1) : s[k] \notin {">", "\n"}

Erased == ""

NotErased(c) == c # Erased

\* re.sub(r'<.*?>', '', text): every match is replaced by nothing.
StripTags(s) ==
    SelectSeq([p \in 1..Len(s) |-> IF InTag(s, p) THEN Erased ELSE s[p]], NotErased)

\* A character the class [^A-Za-z0-9\s.,!?'"-] does not match, so it is kept.
Allowed(c) == c \in Letters \cup Digits \cup Whitespace \cup Punctuation

\* A special-character pass that stops after the first replacement (count=1).
StripSpecialOnce(s) ==
    LET bad == {i \in 1..Len(s) : ~Allowed(s[i])}
    IN  IF bad = {} THEN s
        ELSE LET i == CHOOSE j \in bad : \A k \in bad : j <= k
             IN  SubSeq(s, 1, i - 1) \o SubSeq(s, i + 1, Len(s))

\* re.sub(r'[^A-Za-z0-9\s.,!?\'"-]', '', clean)
StripSpecial(s) == SelectSeq(s, Allowed)

clean_text(text) == StripSpecial(StripTags(text))

\* len(text.split()): the number of maximal runs of non-whitespace.
WordCount(s) ==
    Cardinality({i \in 1..Len(s) : ~IsSpace(s[i]) /\ (i = 1 \/ IsSpace(s[i-1]))})

\* ------------------------------------------------------------ JSON values

\* Decoded JSON and the Python values built from it, tagged by type. An object's
\* f maps its keys to values; the empty object has the empty function.
JNull == [t |-> "null"]

JStr(s) == [t |-> "str", s |-> s]

JList(l) == [t |-> "list", l |-> l]

JObj(f) == [t |-> "obj", f |-> f]

EmptyDict == JObj(<<>>)

\* dict.get(key, default)
Get(d, k, default) == IF k \in DOMAIN d.f THEN d.f[k] ELSE default

\* Python truthiness of None and of a str.
Truthy(v) == v.t = "str" /\ v.s # <<>>

\* ' '.join(parts)
RECURSIVE Join(_)
Join(parts) ==
    IF parts = <<>> THEN <<>>
    ELSE IF Len(parts) = 1 THEN parts[1].s
    ELSE parts[1].s \o <<" ">> \o Join(Tail(parts))

get_article_content(article) ==
    LET content_parts == << Get(article, "abstract", JStr(<<>>)),
                            Get(article, "snippet", JStr(<<>>)),
                            Get(article, "lead_paragraph", JStr(<<>>)) >>
    IN  Join(SelectSeq(content_parts, Truthy))

\* ---------------------------------------------------------- fetch_articles

\* `not NYT_API_KEY`, for the value os.getenv gave: None or a string.
KeyMissingOnlyNone(key) == key.t = "null"

KeyMissing(key) == ~Truthy(key)

\* What one call of fetch_articles does: the dict it returns, or the exception
\* that leaves it (raised # "none"), and whether requests.get was called.
Returned(result, net) == [raised |-> "none", result |-> result, netCalls |-> net]

Raised(exc) == [raised |-> exc, result |-> <<>>, netCalls |-> 1]

MissingKeyMsg == "NYT API key is missing. Please set NYT_API_KEY in your environment variables."

RateLimitMsg == "Rate limit exceeded. Please try again later."

\* net is what requests.get did: an exception of the requests library, or a
\* response with a status and a body. jsonErrorCaught says whether the installed
\* requests raises its own JSONDecodeError (a RequestException) from
\* response.json() or lets the json module's ValueError through.
fetch_articles(key, net, jsonErrorCaught) ==
    IF KeyMissing(key) THEN Returned("error" :> JStr(MissingKeyMsg), 0)
    ELSE IF net.kind = "exception" THEN Returned("error" :> JStr(net.exc), 1)
    ELSE IF net.status = RateLimitStatus THEN Returned("error" :> JStr(RateLimitMsg), 1)
    ELSE IF net.status >= 400 THEN Returned("error" :> JStr("HTTPError"), 1)
    ELSE IF ~net.json
         THEN IF jsonErrorCaught THEN Returned("error" :> JStr("JSONDecodeError"), 1)
              ELSE Raised("json.JSONDecodeError")
    ELSE LET data == net.data IN
         IF data.t = "null" THEN Raised("TypeError")
         ELSE IF data.t # "obj" THEN Raised("AttributeError")
         ELSE IF "fault" \in DOMAIN data.f
              THEN LET fault == data.f["fault"] IN
                   IF fault.t # "obj" THEN Raised("TypeError")
                   ELSE IF "faultstring" \notin DOMAIN fault.f THEN Raised("KeyError")
                   ELSE Returned("error" :> fault.f["faultstring"], 1)
         ELSE LET response == Get(data, "response", EmptyDict) IN
              IF response.t # "obj" THEN Raised("AttributeError")
              ELSE LET articles == Get(response, "docs", JList(<<>>)) IN
                   IF articles.t = "null" THEN Raised("TypeError")
                   ELSE Returned("articles" :> articles, 1)

\* --------------------------------------------- summarization parameter policy

Min(a, b) == IF a <= b THEN a ELSE b

\* A short-text test with the wrong threshold.
TooShortLow(text_length) == text_length < DefaultMinLen

\* if text_length < 50: return text
TooShort(text_length) == text_length < ShortLimit

\* A bound that forgets the cap of 130.
MaxLengthUncapped(text_length) == text_length - LengthMargin

\* max_length = min(130, text_length - 10)
MaxLength(text_length) == Min(MaxSummaryLen, text_length - LengthMargin)

\* A lower bound that is always halved.
MinLengthHalved(max_length) == max_length \div 2

\* min_length = 30; if min_length >= max_length: min_length = max_length // 2
MinLength(max_length) ==
    IF DefaultMinLen >= max_length THEN max_length \div 2 ELSE DefaultMinLen

\* What the model returns as summary[0]['summary_text']: text of its own, which
\* is no cleaned input ("#" never survives clean_text).
SummaryText == <<"#">>

\* The fixed summary of an article with no content.
Placeholder ==
    <<"N", "o", " ", "c", "o", "n", "t", "e", "n", "t", " ", "a", "v", "a", "i", "l", "a",
      "b", "l", "e", " ", "t", "o", " ", "s", "u", "m", "m", "a", "r", "i", "z", "e", ".">>

\* ------------------------------------------------------------------ inputs

Requests == {"r1", "r2"}

Alphabet == {"a", " ", "<", ">", "\n", "&"}

StringsUpTo(k) == UNION {[1..n -> Alphabet] : n \in 0..k}

\* n words separated by single spaces.
ManyWords(n) == [i \in 1..(2 * n - 1) |-> IF i % 2 = 1 THEN "a" ELSE " "]

\* n words wrapped in markup that cleaning removes.
Marked(n) == <<"<", "b", ">">> \o ManyWords(n) \o <<"&">>

TextInputs ==
    StringsUpTo(MaxLen) \cup {ManyWords(n) : n \in 0..MaxWords}
                        \cup {Marked(n) : n \in 0..MaxWords}

\* The articles a search response is made of: one with no content (an empty
\* snippet only); one with a null abstract and a short snippet with markup; one
\* with no headline whose abstract and lead paragraph are long only together.
ArticlePool ==
    << JObj(("headline" :> JObj("main" :> JStr("T1"))) @@ ("web_url" :> JStr("u1"))
            @@ ("snippet" :> JStr(<<>>))),
       JObj(("headline" :> JObj("main" :> JStr("T2"))) @@ ("abstract" :> JNull)
            @@ ("snippet" :> JStr(<<"<", "b", ">", "a", "<", "/", "b", ">", " ", "&", "b">>))),
       JObj(("web_url" :> JStr("u3")) @@ ("abstract" :> JStr(Marked(25)))
            @@ ("lead_paragraph" :> JStr(ManyWords(25)))) >>

DocLists == UNION {[1..n -> 1..Len(ArticlePool)] : n \in 0..MaxArticles}

Docs(ixs) == JList([i \in 1..Len(ixs) |-> ArticlePool[ixs[i]]])

Json(data) == [kind |-> "response", status |-> 200, json |-> TRUE, data |-> data, exc |-> ""]

Http(status) == [kind |-> "response", status |-> status, json |-> FALSE, data |-> JNull, exc |-> ""]

\* What the search API, or the network before it, can answer.
FaultyNet ==
    << [kind |-> "exception", status |-> 0, json |-> FALSE, data |-> JNull, exc |-> "ConnectionError"],
       Http(RateLimitStatus), Http(500), Http(200),
       Json(JNull),
       Json(EmptyDict),
       Json(JObj("response" :> EmptyDict)),
       Json(JObj("response" :> JNull)),
       Json(JObj("response" :> JObj("docs" :> JNull))),
       Json(JObj("response" :> JObj("docs" :> JStr("x")))),
       Json(JObj("fault" :> JObj("faultstring" :> JStr("Invalid ApiKey")))),
       Json(JObj("fault" :> JObj("faultstring" :> JNull))),
       Json(JObj("fault" :> JObj("detail" :> JStr("x")))),
       Json(JObj("fault" :> JStr("x"))) >>

\* The environment's NYT_API_KEY: unset, empty, or set.
ApiKeys == <<JNull, JStr(<<>>), JStr(<<"k">>)>>

\* The forms posted to /summarize: a query with page 0, a query with no page
\* field, a query with a page that is no number.
Forms ==
    << [query |-> JStr("climate"), page |-> JStr(<<"0">>)],
       [query |-> JStr("climate"), page |-> JNull],
       [query |-> JStr("climate"), page |-> JStr(<<"x">>)] >>

DigitValue(c) == CHOOSE v \in 0..9 : <<"0","1","2","3","4","5","6","7","8","9">>[v + 1] = c

IsDecimal(s) == s # <<>> /\ \A i \in 1..Len(s) : s[i] \in Digits

RECURSIVE DecimalValue(_)
DecimalValue(s) ==
    IF s = <<>> THEN 0 ELSE 10 * DecimalValue(SubSeq(s, 1, Len(s) - 1)) + DigitValue(s[Len(s)])

\* --------------------------------------------------------------------- state

VARIABLES
    NYT_API_KEY,     \* the module-level key read from the environment
    summarizer,      \* the module-level handle: 0 is None, n the n-th handle built
    constructions,   \* how many times pipeline(...) has run
    created,         \* how many handles pipeline(...) has built
    req              \* each request thread: its position, locals and history

vars == <<NYT_API_KEY, summarizer, constructions, created, req>>

\* A thread before its request arrives. caller is who summarize_text returns
\* to; rendered, netCalls, getCalls, calls, outcomes and exc record what the
\* thread did: its render_template calls, its requests.get calls, its
\* get_summarizer calls, its calls of the handle, how each article's summary
\* came about, and the exception that left the handler.
NoRequest ==
    [pc |-> "idle", caller |-> "summarize", query |-> JNull, page |-> 0,
     result |-> <<>>, articles |-> <<>>, idx |-> 1, summarized_articles |-> <<>>,
     headline |-> JNull, web_url |-> JNull, content |-> <<>>,
     text |-> <<>>, max_length |-> 0, min_length |-> 0, handle |-> 0,
     summary |-> <<>>,
     rendered |-> <<>>, netCalls |-> 0, getCalls |-> 0, calls |-> <<>>,
     outcomes |-> <<>>, exc |-> "none"]

\* The process starts with no handle and serves the requests on their threads.
Init ==
    /\ \E i \in 1..Len(ApiKeys) : NYT_API_KEY = ApiKeys[i]
    /\ summarizer = 0
    /\ constructions = 0
    /\ created = 0
    /\ req = [r \in Requests |-> NoRequest]

Update(r, new) == req' = [req EXCEPT ![r] = new]

Render(template, error, articles, query, page) ==
    [template |-> template, error |-> error, articles |-> articles,
     query |-> query, page |-> page]

\* ------------------------------------------------------------ summarize_text

\* An append that puts the entry in front (insert(0, ...)).
AppendedInFront(q) ==
    [q EXCEPT !.pc = "loop", !.idx = @ + 1,
              !.summarized_articles =
                  <<[title |-> q.headline, url |-> q.web_url,
                     summary |-> q.summary]>> \o @]

\* summarize(): the article's entry is appended and the loop goes on.
Appended(q) ==
    [q EXCEPT !.pc = "loop", !.idx = @ + 1,
              !.summarized_articles =
                  Append(@, [title |-> q.headline, url |-> q.web_url,
                             summary |-> q.summary])]

\* summarize_text returns summary: to the loop of summarize(), which appends
\* the entry, or to another caller.
Return(q, summary, outcome) ==
    LET done == [q EXCEPT !.summary = summary, !.outcomes = Append(@, outcome)]
    IN  IF q.caller = "summarize" THEN Appended(done)
        ELSE [done EXCEPT !.pc = "returned"]

\* summarize_text up to its try: the text is cleaned and counted; a short one
\* is returned as it is, for the others the bounds of the model call are set.
Summarizing(q) ==
    LET text == clean_text(q.content)
        text_length == WordCount(text)
        max_length == MaxLength(text_length)
    IN  IF TooShort(text_length)
        THEN Return([q EXCEPT !.text = text], text, "short")
        ELSE [q EXCEPT !.pc = "get_summarizer", !.text = text,
                       !.max_length = max_length,
                       !.min_length = MinLength(max_length)]

\* An except clause that returns the text as it came in.
Fallback_raw(q) == Return(q, q.content, "failed")

\* except Exception: return text
Fallback(q) == Return(q, q.text, "failed")

\* ------------------------------------------------------------------ actions

\* Requests are named in the order they arrive.
Arrives(r) == r = "r1" \/ req["r1"].pc # "idle"

\* summarize(): the form is read; int() of a page that is no number raises.
Receive(r) ==
    /\ req[r].pc = "idle"
    /\ Arrives(r)
    /\ \E f \in 1..Len(Forms) :
         LET query == Forms[f].query
             field == Forms[f].page
         IN  IF field.t = "null"
             THEN Update(r, [req[r] EXCEPT !.pc = "fetch", !.query = query, !.page = 0])
             ELSE IF IsDecimal(field.s)
             THEN Update(r, [req[r] EXCEPT !.pc = "fetch", !.query = query,
                                           !.page = DecimalValue(field.s)])
             ELSE Update(r, [req[r] EXCEPT !.pc = "raised", !.query = query,
                                           !.exc = "ValueError"])
    /\ UNCHANGED <<NYT_API_KEY, summarizer, constructions, created>>

\* summarize(): fetch_articles is called and its result is branched on: an
\* error renders the form again, articles start the loop. Articles that are a
\* string (docs was one) give the loop a character, whose .get raises.
Fetched(r, net, jsonErrorCaught) ==
    LET out == fetch_articles(NYT_API_KEY, net, jsonErrorCaught)
    IN  IF out.raised # "none"
        THEN Update(r, [req[r] EXCEPT !.pc = "raised", !.exc = out.raised,
                                      !.netCalls = @ + out.netCalls])
        ELSE IF "error" \in DOMAIN out.result
        THEN Update(r, [req[r] EXCEPT
                 !.pc = "done", !.result = out.result,
                 !.netCalls = @ + out.netCalls,
                 !.rendered = Append(@, Render("index.html", out.result["error"],
                                               <<>>, req[r].query, req[r].page))])
        ELSE IF out.result["articles"].t = "str"
        THEN Update(r, [req[r] EXCEPT !.pc = "raised", !.exc = "AttributeError",
                                      !.result = out.result,
                                      !.netCalls = @ + out.netCalls])
        ELSE Update(r, [req[r] EXCEPT
                 !.pc = "loop", !.result = out.result,
                 !.netCalls = @ + out.netCalls,
                 !.articles = out.result["articles"].l,
                 !.idx = 1, !.summarized_articles = <<>>])

\* How many articles the search API has handed out so far.
RECURSIVE Served(_)
Served(rs) ==
    IF rs = {} THEN 0
    ELSE LET r == CHOOSE x \in rs : TRUE
         IN  Len(req[r].articles) + Served(rs \ {r})

FetchArticles(r) ==
    /\ req[r].pc = "fetch"
    /\ \E jsonErrorCaught \in BOOLEAN :
         \/ \E n \in 1..Len(FaultyNet) : Fetched(r, FaultyNet[n], jsonErrorCaught)
         \/ \E ixs \in DocLists :
              /\ Len(ixs) + Served(Requests) <= MaxArticles
              /\ Fetched(r, Json(JObj("response" :> JObj("docs" :> Docs(ixs)))),
                         jsonErrorCaught)
    /\ UNCHANGED <<NYT_API_KEY, summarizer, constructions, created>>

\* summarize(): the loop takes the next article; one without content gets the
\* placeholder, the others go through summarize_text up to its try.
LoopStep(r) ==
    /\ req[r].pc = "loop"
    /\ req[r].idx <= Len(req[r].articles)
    /\ LET article == req[r].articles[req[r].idx]
           headline == Get(Get(article, "headline", EmptyDict), "main", JStr("No Title"))
           web_url == Get(article, "web_url", JStr(""))
           content == get_article_content(article)
           q == [req[r] EXCEPT !.headline = headline, !.web_url = web_url,
                               !.content = content]
       IN  IF content # <<>>
           THEN Update(r, Summarizing(q))
           ELSE Update(r, Appended([q EXCEPT !.summary = Placeholder,
                                             !.outcomes = Append(@, "placeholder")]))
    /\ UNCHANGED <<NYT_API_KEY, summarizer, constructions, created>>

\* summarize_text, called on its own.
SummarizeText(r) ==
    /\ req[r].pc = "summarize_text"
    /\ Update(r, Summarizing(req[r]))
    /\ UNCHANGED <<NYT_API_KEY, summarizer, constructions, created>>

\* get_summarizer: the test of the module-level handle. Nothing guards it:
\* another thread may run between this test and the assignment that follows.
GetSummarizer(r) ==
    /\ req[r].pc = "get_summarizer"
    /\ IF summarizer = 0
       THEN Update(r, [req[r] EXCEPT !.pc = "pipeline", !.getCalls = @ + 1])
       ELSE Update(r, [req[r] EXCEPT !.pc = "invoke", !.getCalls = @ + 1,
                                     !.handle = summarizer])
    /\ UNCHANGED <<NYT_API_KEY, summarizer, constructions, created>>

\* get_summarizer: pipeline(...) builds a handle and the module-level name is
\* bound to it, or it raises, which summarize_text catches.
Pipeline(r) ==
    /\ req[r].pc = "pipeline"
    /\ constructions' = constructions + 1
    /\ \/ /\ created' = created + 1
          /\ summarizer' = created'
          /\ Update(r, [req[r] EXCEPT !.pc = "invoke", !.handle = created'])
       \/ /\ UNCHANGED <<summarizer, created>>
          /\ Update(r, Fallback(req[r]))
    /\ UNCHANGED NYT_API_KEY

\* summarize_text: the handle is called with the text and the bounds; its
\* summary is returned, or the call fails and the cleaned text is returned.
Invoke(r) ==
    /\ req[r].pc = "invoke"
    /\ LET q == [req[r] EXCEPT !.calls = Append(@,
                     [text |-> req[r].text, max_length |-> req[r].max_length,
                      min_length |-> req[r].min_length, handle |-> req[r].handle])]
       IN  \/ Update(r, Return(q, SummaryText, "summarised"))
           \/ Update(r, Fallback(q))
    /\ UNCHANGED <<NYT_API_KEY, summarizer, constructions, created>>

\* summarize(): after the last article the results page is rendered.
RenderResults(r) ==
    /\ req[r].pc = "loop"
    /\ req[r].idx > Len(req[r].articles)
    /\ Update(r, [req[r] EXCEPT
           !.pc = "done",
           !.rendered = Append(@, Render("results.html", JNull,
                                         req[r].summarized_articles,
                                         req[r].query, req[r].page))])
    /\ UNCHANGED <<NYT_API_KEY, summarizer, constructions, created>>

Next ==
    \E r \in Requests :
        \/ Receive(r)
        \/ FetchArticles(r)
        \/ LoopStep(r)
        \/ GetSummarizer(r)
        \/ Pipeline(r)
        \/ Invoke(r)
        \/ RenderResults(r)

Spec == Init /\ [][Next]_vars

\* ---------------------------------------------- summarize_text on its own

\* One thread is about to run summarize_text on a text drawn from TextInputs,
\* in a process whose handle is not built yet or was built before.
InitText ==
    /\ NYT_API_KEY = ApiKeys[3]
    /\ summarizer \in {0, 1}
    /\ constructions = summarizer
    /\ created = summarizer
    /\ \E c \in TextInputs :
         req = [r \in Requests |->
                  IF r = "r1"
                  THEN [NoRequest EXCEPT !.pc = "summarize_text", !.caller = "test",
                                         !.content = c]
                  ELSE NoRequest]

NextText ==
    \E r \in Requests :
        \/ SummarizeText(r)
        \/ GetSummarizer(r)
        \/ Pipeline(r)
        \/ Invoke(r)

SpecText == InitText /\ [][NextText]_vars

\* ------------------------------------------------------------------ claims

\* The calls of the model handle a thread has made.
CallsOf(r) == {req[r].calls[i] : i \in 1..Len(req[r].calls)}

\* Whether summarize_text, called on its own by r, has got past its cleaning.
Cleaned(r) == req[r].caller = "test" /\ req[r].pc # "summarize_text"

\* C1: for every input text whose cleaned form has fewer than 50 words,
\* summarize_text returns exactly clean_text(input), and neither get_summarizer
\* nor the model handle is called, nor is a handle built: the module-level
\* handle is what it was.
C1_ShortTextReturnedCleaned ==
    \A r \in Requests :
        (Cleaned(r) /\ WordCount(clean_text(req[r].content)) < 50)
        => /\ req[r].pc = "returned"
           /\ req[r].summary = clean_text(req[r].content)
           /\ req[r].getCalls = 0
           /\ req[r].calls = <<>>
           /\ constructions = summarizer
           /\ created = summarizer

\* A text of 49 words that cleaning changes was returned cleaned, with no handle.
C1_Witness ==
    \E r \in Requests :
        /\ req[r].pc = "returned"
        /\ WordCount(clean_text(req[r].content)) = 49
        /\ req[r].content # clean_text(req[r].content)
        /\ req[r].summary = clean_text(req[r].content)
        /\ summarizer = 0

\* C2: whenever the model is called with a cleaned text of n >= 60 words, it is
\* called with max_length = min(130, n - 10) and min_length = 30, and
\* min_length < max_length.
C2_BoundsFromSixtyWords ==
    \A r \in Requests : \A c \in CallsOf(r) :
        LET n == WordCount(c.text)
        IN  n >= 60
            => /\ c.max_length = (IF n - 10 < 130 THEN n - 10 ELSE 130)
               /\ c.min_length = 30
               /\ c.min_length < c.max_length

\* The model was called with a text of more than 140 words, at the cap of 130.
C2_Witness ==
    \E r \in Requests : \E c \in CallsOf(r) :
        WordCount(c.text) = 142 /\ c.max_length = 130 /\ c.min_length = 30

\* C8: clean_text is idempotent: cleaning the text that summarize_text has
\* cleaned gives that text again, whatever angle brackets the input had.
C8_CleanTextIdempotent ==
    \A r \in Requests :
        Cleaned(r) => clean_text(req[r].text) = req[r].text

\* An input with a line break inside angle brackets was cleaned: the brackets
\* went as special characters, not as a tag.
C8_Witness ==
    \E r \in Requests :
        /\ Cleaned(r)
        /\ req[r].content = <<"<", "\n", ">", "a">>
        /\ req[r].text = <<"\n", "a">>

\* C10, as stated: for the word counts the spec gives for the adjustment case
\* (text_length - 10 <= 30, exemplified as 51 to 59 words) the model is called
\* with min_length = max_length // 2 < max_length.
C10_Original ==
    \A r \in Requests : \A c \in CallsOf(r) :
        LET n == WordCount(c.text)
        IN  (n - 10 <= 30 \/ (51 <= n /\ n <= 59))
            => /\ c.min_length = c.max_length \div 2
               /\ c.min_length < c.max_length

\* C10, amended: no text with text_length - 10 <= 30 reaches the model, and a
\* text of 50 to 59 words is passed with max_length = text_length - 10 and the
\* unadjusted min_length = 30 < max_length.
C10_Amended ==
    \A r \in Requests : \A c \in CallsOf(r) :
        LET n == WordCount(c.text)
        IN  /\ n - 10 > 30
            /\ n <= 59 => /\ c.max_length = n - 10
                          /\ c.min_length = 30
                          /\ c.min_length < c.max_length

\* The model was called with a text of 51 words.
C10_Witness ==
    \E r \in Requests : \E c \in CallsOf(r) :
        WordCount(c.text) = 51 /\ c.max_length = 41 /\ c.min_length = 30

\* C3: the model handle is created at most once per process, whatever the
\* interleaving of the requests, and every call of the model uses that handle.
C3_HandleCreatedOnce ==
    /\ created <= 1
    /\ \A r \in Requests : \A c \in CallsOf(r) : c.handle = 1

\* Whether fetch_articles has returned to r's handler.
FetchReturned(r) == req[r].pc \notin {"idle", "fetch"} /\ req[r].result # <<>>

\* C4: fetch_articles never raises past its boundary, whatever the key, the
\* network outcome, the status and the decoded body, and what it returns has
\* exactly one of the keys 'error', a string, and 'articles', a sequence. (A
\* body that does not decode is not among the claim's cases, and the ValueError
\* of int() is raised by the handler before the call.)
C4_FetchNeverRaises ==
    \A r \in Requests :
        /\ req[r].exc \in {"none", "ValueError", "json.JSONDecodeError"}
        /\ FetchReturned(r)
           => \/ /\ DOMAIN req[r].result = {"error"}
                 /\ req[r].result["error"].t = "str"
              \/ /\ DOMAIN req[r].result = {"articles"}
                 /\ req[r].result["articles"].t = "list"

NoApiKey == NYT_API_KEY.t = "null" \/ NYT_API_KEY.s = <<>>

\* C5: when no API key is configured, fetch_articles returns the error "NYT API
\* key is missing..." and the call issues no request to the search API.
C5_MissingKeyNoNetwork ==
    NoApiKey
    => \A r \in Requests :
          /\ req[r].netCalls = 0
          /\ req[r].exc \in {"none", "ValueError"}
          /\ req[r].pc \notin {"idle", "fetch", "raised"}
             => /\ DOMAIN req[r].result = {"error"}
                /\ req[r].result["error"] = JStr(MissingKeyMsg)

\* With the key unset, a request ended in the form with the missing-key error.
C5_Witness ==
    /\ NYT_API_KEY.t = "null"
    /\ \E r \in Requests :
          /\ req[r].pc = "done"
          /\ req[r].netCalls = 0
          /\ req[r].rendered[1].template = "index.html"
          /\ req[r].rendered[1].error = JStr(MissingKeyMsg)

\* The title and the url the handler reads from an article of the response.
TitleOf(article) ==
    IF "headline" \in DOMAIN article.f
    THEN article.f["headline"].f["main"] ELSE JStr("No Title")

UrlOf(article) ==
    IF "web_url" \in DOMAIN article.f THEN article.f["web_url"] ELSE JStr("")

\* C6: when the search succeeds, the rendered results have exactly one entry
\* per article of the response, in the response's order, whatever the outcome
\* of each article's summary.
C6_OneEntryPerArticleInOrder ==
    \A r \in Requests :
        (req[r].pc = "done" /\ "articles" \in DOMAIN req[r].result)
        => LET docs == req[r].result["articles"].l
               page == req[r].rendered[Len(req[r].rendered)]
           IN  /\ page.template = "results.html"
               /\ Len(page.articles) = Len(docs)
               /\ \A i \in 1..Len(docs) :
                     /\ page.articles[i].title = TitleOf(docs[i])
                     /\ page.articles[i].url = UrlOf(docs[i])

\* A results page of three articles: one summarised, one with the placeholder,
\* one whose model call failed.
C6_Witness ==
    \E r \in Requests :
        /\ req[r].pc = "done"
        /\ req[r].outcomes = <<"summarised", "placeholder", "failed">>
        /\ Len(req[r].rendered[1].articles) = 3

\* C7: a failure while the model is obtained or called is absorbed: that
\* article's summary is its cleaned text, no exception leaves the handler, the
\* loop goes on with the article after it, and the request ends in the results
\* page with an entry for every article.
C7_ModelFailureAbsorbed ==
    \A r \in Requests :
        (\E i \in 1..Len(req[r].outcomes) : req[r].outcomes[i] = "failed")
        => /\ \A i \in 1..Len(req[r].outcomes) :
                 req[r].outcomes[i] = "failed"
                 => /\ i <= Len(req[r].summarized_articles)
                    /\ req[r].summarized_articles[i].summary
                         = clean_text(get_article_content(req[r].articles[i]))
           /\ req[r].exc = "none"
           /\ req[r].pc # "raised"
           /\ req[r].pc \in {"loop", "get_summarizer", "pipeline", "invoke", "done"}
           /\ req[r].pc = "loop" => req[r].idx = Len(req[r].summarized_articles) + 1
           /\ req[r].pc = "done"
              => /\ Len(req[r].rendered) = 1
                 /\ req[r].rendered[1].template = "results.html"
                 /\ Len(req[r].rendered[1].articles) = Len(req[r].articles)

\* A request whose first article failed in pipeline(...) and whose second
\* failed in the model call went on to summarise its third and rendered.
C7_Witness ==
    \E r \in Requests :
        /\ req[r].pc = "done"
        /\ req[r].outcomes = <<"failed", "failed", "summarised">>
        /\ Len(req[r].calls) = 2
        /\ req[r].rendered[1].template = "results.html"

\* C9: every request ends in exactly one render call: the form with the error
\* if and only if the search returned an error, and then no article was
\* summarised and the model was not called; the results page otherwise.
C9_EndsInOneRender ==
    \A r \in Requests :
        req[r].pc \in {"done", "raised"}
        => /\ Len(req[r].rendered) = 1
           /\ IF "error" \in DOMAIN req[r].result
              THEN /\ req[r].rendered[1].template = "index.html"
                   /\ req[r].summarized_articles = <<>>
                   /\ req[r].getCalls = 0
                   /\ req[r].calls = <<>>
              ELSE req[r].rendered[1].template = "results.html"

====
